---- MODULE Spec2Model ----
(***************************************************************************)
(* Screen Time Tracker: the spreadsheet store (sheets.py) and the          *)
(* analytics of the dashboard script (app.py).                             *)
(*                                                                         *)
(* A worksheet is a sequence of rows, row 1 being the header; every cell   *)
(* is the text the sheet shows.  A calendar date is its ordinal, day 0     *)
(* being Monday 2024-01-01; isoformat and the pandas parsers are modelled  *)
(* as conversions between ordinals / integers and cell text.               *)
(***************************************************************************)
EXTENDS Integers, Sequences, FiniteSets, TLC

VARIABLES
    sheet,      \* the worksheet: header row, then the data rows
    now,        \* the clock read by datetime.utcnow(), in ticks
    call,       \* arguments of the most recent upsert_day call
    ret,        \* its return value
    prevCall,   \* arguments of the upsert_day call before that one
    prevSheet,  \* the worksheet as it was before the most recent call
    written,    \* history: upserted date -> minutes of its latest upsert
    df,         \* the DataFrame returned by the most recent load_data
    start,      \* analysis range, first day
    end,        \* analysis range, last day
    goal,       \* daily goal (minutes)
    threshold,  \* streak threshold (minutes)
    panel,      \* what the metrics panel computed (daily, summary, streak, heat)
    outcome     \* how the most recent step ended

vars == <<sheet, now, call, ret, prevCall, prevSheet, written, df,
          start, end, goal, threshold, panel, outcome>>

storeVars == <<sheet, now, call, ret, prevCall, prevSheet, written>>
rangeVars == <<start, end, goal, threshold>>

-----------------------------------------------------------------------------
(* Bounds of the model *)

\* dates the writer may save: ordinals 0 .. NumDates-1
NumDates == 3
\* number of upsert_day calls in a run
MaxClock == 3
\* data rows of a hand-edited worksheet
MaxRows == 2
\* extra days after one full week in the analysis window
ExtraDays == 1
\* records of a DataFrame handed to the analytics
MaxRecs == 2

(* Program constants *)

DaysPerWeek == 7
MinutesStep == 5
DefaultMinutes == 0
DefaultGoal == 10
DefaultThreshold == 10
MinGoal == 1

-----------------------------------------------------------------------------
(* Cell text *)

Digits == <<"0", "1", "2", "3", "4", "5", "6", "7", "8", "9">>

\* str(n) for a non-negative integer
RECURSIVE IntToStr(_)
IntToStr(n) ==
    IF n < 10 THEN Digits[n + 1]
    ELSE IntToStr(n \div 10) \o Digits[(n % 10) + 1]

\* two-digit field of an ISO date or time
TwoDigits(n) == IF n < 10 THEN "0" \o IntToStr(n) ELSE IntToStr(n)

\* largest day ordinal of January 2024, the month the model stays in
LastOrdinal == 30

\* date.isoformat(): ordinal -> "2024-01-DD"
isoformat(day) == "2024-01-" \o TwoDigits(day + 1)

\* datetime.utcnow().isoformat() at clock tick t
utcnow_isoformat(t) == "2024-02-01T00:00:" \o TwoDigits(t)

\* pandas NaT / NaN / pd.NA: an absent value is the empty tuple, a present
\* value v is <<v>>
NA == <<>>
Some(v) == <<v>>
notna(x) == x # NA
isna(x) == x = NA

\* the date each ISO text of the month parses to
DateOfText ==
    [text \in {isoformat(d) : d \in 0..LastOrdinal} |->
        CHOOSE d \in 0..LastOrdinal : isoformat(d) = text]

\* pd.to_datetime(text, errors="coerce").dt.date
to_datetime(text) ==
    IF text \in DOMAIN DateOfText THEN Some(DateOfText[text]) ELSE NA

\* largest integer a minutes cell of the model can show
MaxNumeric == 20

\* the integer each numeric cell text parses to
NumberOfText ==
    [text \in {IntToStr(n) : n \in 0..MaxNumeric} |->
        CHOOSE n \in 0..MaxNumeric : IntToStr(n) = text]

\* pd.to_numeric(text, errors="coerce") on what get_all_records returns for
\* the cell (an int for numeric text, the text itself otherwise)
to_numeric(text) ==
    IF text \in DOMAIN NumberOfText THEN Some(NumberOfText[text]) ELSE NA

\* Series.fillna(0)
fillna0(x) == IF isna(x) THEN 0 ELSE x[1]

-----------------------------------------------------------------------------
(* The worksheet *)

Header == [date |-> "date", minutes |-> "minutes",
           source |-> "source", updated_at |-> "updated_at"]

\* ws.col_values(1): column A, header included
col_values(ws) == [i \in 1..Len(ws) |-> ws[i].date]

\* list.index(x): 0-based position of the first occurrence
PyIndex(list, x) ==
    (CHOOSE i \in 1..Len(list) :
        /\ list[i] = x
        /\ \A j \in 1..(i - 1) : list[j] # x) - 1

\* x in list
PyIn(x, list) == \E i \in 1..Len(list) : list[i] = x

\* the row number upsert_day forgets to offset: an index into the data rows
\* taken as a sheet row number
row_idx_no_header(col_dates, day_str) == PyIndex(Tail(col_dates), day_str) + 1

\* row_idx = col_dates.index(day_str) + 1: 1-indexed row number in the sheet
row_idx(col_dates, day_str) == PyIndex(col_dates, day_str) + 1

\* ws.update(f"B{row}:D{row}", [[minutes, source, now_str]])
ws_update(ws, row, minutes, source, now_str) ==
    [ws EXCEPT ![row] = [@ EXCEPT !.minutes = IntToStr(minutes),
                                  !.source = source,
                                  !.updated_at = now_str]]

\* ws.append_row([day_str, minutes, source, now_str])
append_row(ws, day_str, minutes, source, now_str) ==
    Append(ws, [date |-> day_str, minutes |-> IntToStr(minutes),
                source |-> source, updated_at |-> now_str])

\* col_dates[1:] cut one element too far
data_dates_skip_two(col_dates) ==
    IF Len(col_dates) >= 2 THEN SubSeq(col_dates, 3, Len(col_dates)) ELSE <<>>

\* col_dates[1:]: column A without the header
data_dates(col_dates) == Tail(col_dates)

\* upsert_day that never looks the date up
upsert_day_always_append(ws, day, minutes, source, t) ==
    [ws |-> append_row(ws, isoformat(day), minutes, source, utcnow_isoformat(t)),
     ret |-> "inserted"]

\* upsert_day: the worksheet after the call and the value returned
upsert_day(ws, day, minutes, source, t) ==
    LET col_dates == col_values(ws)
        day_str == isoformat(day)
        now_str == utcnow_isoformat(t)
    IN  IF PyIn(day_str, data_dates(col_dates))
        THEN [ws |-> ws_update(ws, row_idx(col_dates, day_str),
                               minutes, source, now_str),
              ret |-> "updated"]
        ELSE [ws |-> append_row(ws, day_str, minutes, source, now_str),
              ret |-> "inserted"]

\* ws.get_all_records(): the rows below the header
get_all_records(ws) == Tail(ws)

\* one row of the DataFrame after the four column conversions
Convert(rec) ==
    [date |-> to_datetime(rec.date),
     minutes |-> fillna0(to_numeric(rec.minutes)),
     source |-> rec.source,
     updated_at |-> rec.updated_at]

\* df.dropna(subset=[col]) on a sequence of rows
RECURSIVE DropNaDate(_)
DropNaDate(rows) ==
    IF rows = <<>> THEN <<>>
    ELSE IF isna(Head(rows).date) THEN DropNaDate(Tail(rows))
         ELSE <<[Head(rows) EXCEPT !.date = @[1]]>> \o DropNaDate(Tail(rows))

\* df.sort_values("date"): rows in ascending date order
RECURSIVE InsertByDate(_, _)
InsertByDate(row, sorted) ==
    IF sorted = <<>> THEN <<row>>
    ELSE IF row.date < Head(sorted).date THEN <<row>> \o sorted
         ELSE <<Head(sorted)>> \o InsertByDate(row, Tail(sorted))

RECURSIVE sort_values(_)
sort_values(rows) ==
    IF rows = <<>> THEN <<>>
    ELSE InsertByDate(rows[Len(rows)], sort_values(SubSeq(rows, 1, Len(rows) - 1)))

\* load_data that also drops the rows whose minutes do not parse
load_data_dropna_minutes(ws) ==
    LET records == get_all_records(ws)
        kept == SelectSeq(records, LAMBDA r : notna(to_numeric(r.minutes)))
    IN  sort_values(DropNaDate([i \in 1..Len(kept) |-> Convert(kept[i])]))

\* load_data: the DataFrame, a sequence of rows sorted by date
load_data(ws) ==
    LET records == get_all_records(ws)
    IN  IF records = <<>> THEN <<>>
        ELSE sort_values(DropNaDate([i \in 1..Len(records) |-> Convert(records[i])]))

-----------------------------------------------------------------------------
(* Analytics helpers (app.py) *)

\* pd.date_range that walks a reversed range backwards
date_range_reversed(first, last) ==
    IF first <= last
    THEN [i \in 1..(last - first + 1) |-> first + i - 1]
    ELSE [i \in 1..(first - last + 1) |-> first - i + 1]

\* pd.date_range(start, end, freq="D").date: every day from first to last,
\* the empty index when first > last
date_range(first, last) == [i \in 1..(last - first + 1) |-> first + i - 1]

\* base.merge(dfr, on="date", how="left"): the rows of base in order, each
\* paired with every row of dfr of its date, or with NaN minutes if none
RECURSIVE merge_left(_, _)
merge_left(base, dfr) ==
    IF base = <<>> THEN <<>>
    ELSE LET day == Head(base)
             hits == SelectSeq(dfr, LAMBDA r : r.date = day)
         IN  (IF hits = <<>>
              THEN <<[date |-> day, minutes |-> NA]>>
              ELSE [j \in 1..Len(hits) |->
                      [date |-> day, minutes |-> Some(hits[j].minutes)]])
             \o merge_left(Tail(base), dfr)

\* build_full_range with the end of the range excluded from the filter
build_full_range_open_end(frame, first, last) ==
    LET all_days == date_range(first, last)
        dfr == SelectSeq(frame, LAMBDA r : r.date >= first /\ r.date < last)
    IN  merge_left(all_days, dfr)

\* what build_full_range raises: it holds no raise statement, and the
\* date_range of a reversed range is an empty index, not an error
build_full_range_raises(frame, first, last) == "nothing"

\* build_full_range(df, start, end)
build_full_range(frame, first, last) ==
    LET all_days == date_range(first, last)
    IN  IF frame = <<>>
        THEN [i \in 1..Len(all_days) |-> [date |-> all_days[i], minutes |-> NA]]
        ELSE LET dfr == SelectSeq(frame,
                            LAMBDA r : r.date >= first /\ r.date <= last)
             IN  merge_left(all_days, dfr)

\* daily.dropna(subset=["minutes"])
dropna_minutes(daily) == SelectSeq(daily, LAMBDA r : notna(r.minutes))

RECURSIVE SumMinutes(_)
SumMinutes(rows) ==
    IF rows = <<>> THEN 0 ELSE Head(rows).minutes[1] + SumMinutes(Tail(rows))

RECURSIVE Gcd(_, _)
Gcd(a, b) == IF b = 0 THEN a ELSE Gcd(b, a % b)

\* a real number as a fraction in lowest terms
Ratio(n, d) == LET g == Gcd(n, d) IN [num |-> n \div g, den |-> d \div g]
Zero == [num |-> 0, den |-> 1]

\* Series.mean() of the minutes of a non-empty frame
mean(rows) == Ratio(SumMinutes(rows), Len(rows))

\* v < threshold on a column with missing values: False where missing
LessThan(v, bound) == IF isna(v) THEN FALSE ELSE v[1] < bound

\* the streak test with <= in place of <
streak_ok_at_most(v, bound) ==
    notna(v) /\ (IF isna(v) THEN FALSE ELSE v[1] <= bound)

\* ok = d["minutes"].notna() & (d["minutes"] < threshold), one element
streak_ok(v, bound) == notna(v) /\ LessThan(v, bound)

\* the loop over reversed(ok.tolist())
RECURSIVE TrailingTrue(_)
TrailingTrue(ok) ==
    IF ok = <<>> THEN 0
    ELSE IF ok[Len(ok)] THEN 1 + TrailingTrue(SubSeq(ok, 1, Len(ok) - 1))
         ELSE 0

\* current_streak_under_threshold(daily, threshold)
current_streak_under_threshold(daily, bound) ==
    IF daily = <<>> THEN 0
    ELSE LET d == sort_values(daily)
             ok == [i \in 1..Len(d) |-> streak_ok(d[i].minutes, bound)]
         IN  TrailingTrue(ok)

DayNames == <<"Monday", "Tuesday", "Wednesday", "Thursday",
              "Friday", "Saturday", "Sunday">>
DayLabels == <<"Mon", "Tue", "Wed", "Thu", "Fri", "Sat", "Sun">>

\* Series.dt.day_name(): ordinal 0 is a Monday
day_name(day) == DayNames[(day % DaysPerWeek) + 1]

\* d.groupby("weekday")["minutes"].mean(): weekday name -> mean, for the
\* names that occur
groupby_mean(d) ==
    [name \in {day_name(d[i].date) : i \in 1..Len(d)} |->
        mean(SelectSeq(d, LAMBDA r : day_name(r.date) = name))]

\* .reindex(order): the values in the given order, NaN for a missing key
reindex(agg, order) ==
    [i \in 1..Len(order) |->
        IF order[i] \in DOMAIN agg THEN Some(agg[order[i]]) ELSE NA]

\* weekday_heatmap_data without the fillna(0)
weekday_heatmap_data_present_only(daily) ==
    LET d == dropna_minutes(daily)
        agg == groupby_mean(d)
        present == SelectSeq([i \in 1..DaysPerWeek |-> i],
                             LAMBDA i : DayNames[i] \in DOMAIN agg)
    IN  [k \in 1..Len(present) |->
            [label |-> DayLabels[present[k]],
             avg_minutes |-> agg[DayNames[present[k]]]]]

\* weekday_heatmap_data(daily): the rows Mon..Sun with avg_minutes
weekday_heatmap_data(daily) ==
    LET d == dropna_minutes(daily)
    IN  IF d = <<>>
        THEN [i \in 1..DaysPerWeek |->
                [label |-> DayLabels[i], avg_minutes |-> Zero]]
        ELSE LET agg == reindex(groupby_mean(d), DayNames)
             IN  [i \in 1..DaysPerWeek |->
                    [label |-> DayLabels[i],
                     avg_minutes |-> IF isna(agg[i]) THEN Zero ELSE agg[i][1]]]

\* the days-meeting-goal count with < in place of <=
count_below_strict(available, target) ==
    IF available = <<>> THEN 0
    ELSE Len(SelectSeq(available, LAMBDA r : r.minutes[1] < target))

\* above = int((available["minutes"] > goal).sum()) if not available.empty else 0
count_above(available, target) ==
    IF available = <<>> THEN 0
    ELSE Len(SelectSeq(available, LAMBDA r : r.minutes[1] > target))

\* below = int((available["minutes"] <= goal).sum()) if not available.empty else 0
count_below(available, target) ==
    IF available = <<>> THEN 0
    ELSE Len(SelectSeq(available, LAMBDA r : r.minutes[1] <= target))

\* the metrics panel of the script: daily, the summary metrics, the streak
\* and the weekday table
MetricsPanel(frame, first, last, target, bound) ==
    LET built == sort_values(build_full_range(frame, first, last))
        daily == [i \in 1..Len(built) |->
                    [date |-> built[i].date, minutes |-> built[i].minutes,
                     missing |-> isna(built[i].minutes)]]
        available == dropna_minutes(daily)
    IN  [raised |-> build_full_range_raises(frame, first, last),
         daily |-> daily,
         avg |-> IF available # <<>> THEN mean(available) ELSE Zero,
         total |-> IF available # <<>> THEN SumMinutes(available) ELSE 0,
         days_total |-> Len(daily),
         missing_days |-> Len(SelectSeq(daily, LAMBDA r : r.missing)),
         above |-> count_above(available, target),
         below |-> count_below(available, target),
         streak |-> current_streak_under_threshold(daily, bound),
         heat |-> weekday_heatmap_data(daily)]

-----------------------------------------------------------------------------
(* Inputs *)

WriterDates == 0..(NumDates - 1)
WriterMinutes == {DefaultMinutes, DefaultMinutes + MinutesStep}
Sources == {"manual", "import"}

NoCall == [day |-> -1, minutes |-> 0, source |-> ""]
NoPanel == [daily |-> <<>>]

EmptySheet == <<Header>>

\* the values that are the same in every initial state
InitIdle ==
    /\ now = 0
    /\ call = NoCall
    /\ ret = "none"
    /\ prevCall = NoCall
    /\ written = <<>>
    /\ panel = NoPanel
    /\ outcome = "init"

-----------------------------------------------------------------------------
(* The store: upsert_day followed by load_data, as the Save handler calls them *)

Record(day, minutes) ==
    [x \in DOMAIN written \cup {day} |-> IF x = day THEN minutes ELSE written[x]]

UpsertDay(day, minutes, source) ==
    /\ now < MaxClock
    /\ LET r == upsert_day(sheet, day, minutes, source, now + 1)
       IN  /\ sheet' = r.ws
           /\ ret' = r.ret
           /\ df' = load_data(r.ws)
    /\ now' = now + 1
    /\ prevSheet' = sheet
    /\ prevCall' = call
    /\ call' = [day |-> day, minutes |-> minutes, source |-> source]
    /\ written' = Record(day, minutes)
    /\ outcome' = "saved"
    /\ UNCHANGED <<rangeVars, panel>>

InitStore ==
    /\ InitIdle
    /\ sheet = EmptySheet
    /\ prevSheet = EmptySheet
    /\ df = <<>>
    /\ start = 0 /\ end = 0
    /\ goal = DefaultGoal /\ threshold = DefaultThreshold

NextStore ==
    \E day \in WriterDates, minutes \in WriterMinutes, source \in Sources :
        UpsertDay(day, minutes, source)

Spec == InitStore /\ [][NextStore]_vars

-----------------------------------------------------------------------------
(* Claims about the store *)

DatesOf(frame) == {frame[i].date : i \in 1..Len(frame)}
RowsWithDate(frame, d) == {i \in 1..Len(frame) : frame[i].date = d}

\* C1: after any sequence of upserts on a store that started without rows,
\* load_data returns exactly one record for every upserted date and no other
\* record, and that record carries the minutes of the latest upsert of its date.
C1_OneRecordPerDate ==
    /\ DatesOf(df) = DOMAIN written
    /\ \A d \in DOMAIN written :
        /\ Cardinality(RowsWithDate(df, d)) = 1
        /\ \A i \in RowsWithDate(df, d) : df[i].minutes = written[d]

\* C1 witness: two dates are stored and the latest call overwrote a record
\* whose minutes differed from the new ones.
C1_Witness ==
    /\ ret = "updated"
    /\ Cardinality(DOMAIN written) >= 2
    /\ \E r \in {load_data(prevSheet)[i] : i \in 1..Len(load_data(prevSheet))} :
           r.date = call.day /\ r.minutes # call.minutes

StoredBefore == load_data(prevSheet)

NewRecord ==
    [date |-> call.day, minutes |-> call.minutes, source |-> call.source,
     updated_at |-> utcnow_isoformat(now)]

\* C2: upsert_day returns "updated" exactly when a record with the date was
\* stored at the time of the call; it then overwrites that record's minutes,
\* source and updated_at, leaves every other row alone and adds no row.
\* Otherwise it returns "inserted" and adds exactly one record, the new one.
C2_UpdatedIffStored ==
    call # NoCall =>
        /\ ret \in {"updated", "inserted"}
        /\ ret = "updated" <=> call.day \in DatesOf(StoredBefore)
        /\ ret = "updated" =>
            /\ Len(sheet) = Len(prevSheet)
            /\ Len(df) = Len(StoredBefore)
            /\ \A i \in 1..Len(df) :
                 IF StoredBefore[i].date = call.day
                 THEN df[i] = NewRecord
                 ELSE df[i] = StoredBefore[i]
        /\ ret = "inserted" =>
            /\ Len(sheet) = Len(prevSheet) + 1
            /\ SubSeq(sheet, 1, Len(prevSheet)) = prevSheet
            /\ Len(df) = Len(StoredBefore) + 1
            /\ \E i \in 1..Len(df) : df[i] = NewRecord
            /\ \A r \in {StoredBefore[i] : i \in 1..Len(StoredBefore)} :
                 \E i \in 1..Len(df) : df[i] = r

\* C2 witness: an update that changed minutes and source of a stored record
\* while another record was stored beside it.
C2_Witness ==
    /\ ret = "updated"
    /\ Len(df) >= 2
    /\ \E i \in 1..Len(StoredBefore) :
        /\ StoredBefore[i].date = call.day
        /\ StoredBefore[i].minutes # call.minutes
        /\ StoredBefore[i].source # call.source

WithoutStamp(frame) == [i \in 1..Len(frame) |-> [frame[i] EXCEPT !.updated_at = ""]]

SameCallTwice == call # NoCall /\ call = prevCall

\* C3 as stated: a second upsert with the same arguments returns "updated"
\* and leaves the stored records exactly as the first call left them.
C3_SameRecord ==
    SameCallTwice => ret = "updated" /\ df = StoredBefore

\* C3 amended: a second upsert with the same arguments returns "updated",
\* adds no row, and leaves date, minutes and source of every record as the
\* first call left them; only updated_at of the record is refreshed.
C3_SameUpToStamp ==
    SameCallTwice =>
        /\ ret = "updated"
        /\ Len(sheet) = Len(prevSheet)
        /\ WithoutStamp(df) = WithoutStamp(StoredBefore)
        /\ \A i \in 1..Len(df) :
             IF df[i].date = call.day
             THEN df[i].updated_at = utcnow_isoformat(now)
             ELSE df[i].updated_at = StoredBefore[i].updated_at

\* C3 witness: the same call was made twice in a row next to another record.
C3_Witness == SameCallTwice /\ Len(df) >= 2

-----------------------------------------------------------------------------
(* Reading a worksheet that was edited by hand *)

DirtyDateCells == {isoformat(d) : d \in WriterDates} \cup {"", "n/a"}
DirtyMinuteCells == {IntToStr(m) : m \in WriterMinutes} \cup {"", "abc"}

RawRows ==
    [date : DirtyDateCells, minutes : DirtyMinuteCells,
     source : {"manual"}, updated_at : {""}]

RawTables == UNION {[1..n -> RawRows] : n \in 0..MaxRows}

\* df = load_data(gc, SHEET_ID, WORKSHEET_NAME)
LoadData ==
    /\ outcome = "init"
    /\ df' = load_data(sheet)
    /\ outcome' = "loaded"
    /\ UNCHANGED <<storeVars, rangeVars, panel>>

InitLoad ==
    /\ InitIdle
    /\ \E rows \in RawTables : sheet = <<Header>> \o rows
    /\ prevSheet = sheet
    /\ df = <<>>
    /\ start = 0 /\ end = 0
    /\ goal = DefaultGoal /\ threshold = DefaultThreshold

NextLoad == LoadData

SpecLoad == InitLoad /\ [][NextLoad]_vars

DataRows == 2..Len(sheet)

DateParses(i) == \E d \in 0..LastOrdinal : isoformat(d) = sheet[i].date
MinutesParse(i) == \E n \in 0..MaxNumeric : IntToStr(n) = sheet[i].minutes

\* the record a data row with a parseable date is to be loaded as
Loaded(i) ==
    [date |-> CHOOSE d \in 0..LastOrdinal : isoformat(d) = sheet[i].date,
     minutes |-> IF MinutesParse(i)
                 THEN CHOOSE n \in 0..MaxNumeric : IntToStr(n) = sheet[i].minutes
                 ELSE 0,
     source |-> sheet[i].source,
     updated_at |-> sheet[i].updated_at]

\* C9 as stated: load_data returns every stored row, none is dropped.
C9_NoRowDropped ==
    outcome = "loaded" => Len(df) = Len(sheet) - 1

\* C9 amended: load_data returns, in ascending date order, exactly the stored
\* rows whose date parses (each as often as it is stored); such a row with
\* blank or non-numeric minutes is returned with minutes 0; the rows whose
\* date does not parse are dropped.
C9_RowsWithDateKept ==
    outcome = "loaded" =>
        /\ Len(df) = Cardinality({i \in DataRows : DateParses(i)})
        /\ \A i \in DataRows : DateParses(i) =>
             Cardinality({k \in 1..Len(df) : df[k] = Loaded(i)})
               = Cardinality({j \in DataRows : DateParses(j) /\ Loaded(j) = Loaded(i)})
        /\ \A k \in 1..(Len(df) - 1) : df[k].date <= df[k + 1].date

\* C9 witness: a loaded sheet with a row of non-numeric minutes that was kept
\* and a row of unparseable date that was dropped.
C9_Witness ==
    /\ outcome = "loaded"
    /\ \E i \in DataRows : DateParses(i) /\ ~MinutesParse(i)
    /\ \E i \in DataRows : ~DateParses(i)
    /\ Len(df) = 1

-----------------------------------------------------------------------------
(* The analytics on any record set and any range *)

AnalysisDates == 0..(DaysPerWeek + ExtraDays - 1)
AnalysisMinutes == {0, DefaultGoal, DefaultGoal + MinutesStep}
Goals == {MinGoal, DefaultGoal}
Thresholds == {MinGoal, DefaultThreshold}

RECURSIVE SortedSeq(_)
SortedSeq(S) ==
    IF S = {} THEN <<>>
    ELSE LET m == CHOOSE x \in S : \A y \in S : x <= y
         IN  <<m>> \o SortedSeq(S \ {m})

\* the DataFrame load_data returns for the records dates -> minutes
FrameOf(minutesOf) ==
    LET days == SortedSeq(DOMAIN minutesOf)
    IN  [i \in 1..Len(days) |->
            [date |-> days[i], minutes |-> minutesOf[days[i]],
             source |-> "manual", updated_at |-> ""]]

\* record sets with at most one record per date
Frames ==
    {FrameOf(f) : f \in UNION {[S -> AnalysisMinutes] :
        S \in {T \in SUBSET AnalysisDates : Cardinality(T) <= MaxRecs}}}

\* lines 151-188 of the script on the inputs in hand
Render ==
    /\ outcome = "init"
    /\ panel' = MetricsPanel(df, start, end, goal, threshold)
    /\ outcome' = "metrics"
    /\ UNCHANGED <<storeVars, df, rangeVars>>

InitAnalytics ==
    /\ InitIdle
    /\ sheet = EmptySheet
    /\ prevSheet = EmptySheet
    /\ df \in Frames
    /\ start \in AnalysisDates
    /\ end \in AnalysisDates
    /\ goal \in Goals
    /\ threshold \in Thresholds

NextAnalytics == Render

SpecAnalytics == InitAnalytics /\ [][NextAnalytics]_vars

-----------------------------------------------------------------------------
(* Claims about the analytics *)

Rendered == outcome = "metrics"
Daily == panel.daily
RecordDates == DatesOf(df)
MinutesOn(d) == df[CHOOSE i \in 1..Len(df) : df[i].date = d].minutes
Present == {i \in 1..Len(Daily) : ~Daily[i].missing}

\* C4: for start <= end and a record set with at most one record per date,
\* the dense sequence has one entry per date of [start, end] in ascending
\* order, so (end - start) + 1 entries; an entry is missing exactly when no
\* record has its date and otherwise carries that record's minutes, a stored
\* 0 included.
C4_DenseRange ==
    (Rendered /\ start <= end) =>
        /\ Len(Daily) = (end - start) + 1
        /\ \A i \in 1..Len(Daily) :
            /\ Daily[i].date = start + i - 1
            /\ Daily[i].missing <=> Daily[i].date \notin RecordDates
            /\ Daily[i].missing <=> Daily[i].minutes = NA
            /\ Daily[i].date \in RecordDates =>
                 Daily[i].minutes = <<MinutesOn(Daily[i].date)>>

\* C4 witness: a range of several days holding a day without record, a day
\* with a stored 0 and a record on its last day.
C4_Witness ==
    /\ Rendered
    /\ start < end
    /\ \E i \in 1..Len(Daily) : Daily[i].missing
    /\ \E i \in 1..Len(Daily) : Daily[i].minutes = <<0>>
    /\ end \in RecordDates

\* C5 as stated: with start > end the range normalizer raises
\* InvalidRangeError.
C5_RaisesInvalidRange ==
    (Rendered /\ start > end) => panel.raised = "InvalidRangeError"

\* C5 amended: with start > end the range normalizer raises nothing and
\* returns the empty day sequence, whatever the records are.
C5_EmptyOnReversedRange ==
    (Rendered /\ start > end) =>
        /\ panel.raised = "nothing"
        /\ Daily = <<>>
        /\ panel.days_total = 0

\* C5 witness: a reversed range was rendered over records lying inside it.
C5_Witness ==
    /\ Rendered
    /\ start > end
    /\ \E d \in RecordDates : end <= d /\ d <= start

\* C6: above_goal + meeting_goal is the number of non-missing days; above
\* counts the non-missing days with minutes > goal, meeting those with
\* minutes <= goal, and a missing day is in neither.
C6_GoalSplit ==
    Rendered =>
        /\ panel.above + panel.below = Cardinality(Present)
        /\ panel.above = Cardinality({i \in Present : Daily[i].minutes[1] > goal})
        /\ panel.below = Cardinality({i \in Present : Daily[i].minutes[1] <= goal})

\* C6 witness: a range with a missing day, a day above the goal and a day
\* exactly at the goal.
C6_Witness ==
    /\ Rendered
    /\ panel.missing_days >= 1
    /\ panel.above = 1
    /\ \E i \in Present : Daily[i].minutes[1] = goal

Qualifies(i) == ~Daily[i].missing /\ Daily[i].minutes[1] < threshold

\* the length of the longest suffix of Daily in which every day qualifies
LongestSuffix ==
    CHOOSE n \in 0..Len(Daily) :
        /\ \A i \in (Len(Daily) - n + 1)..Len(Daily) : Qualifies(i)
        /\ n < Len(Daily) => ~Qualifies(Len(Daily) - n)

\* C7: the streak is the length of the longest suffix of the dense sequence
\* whose days are all non-missing with minutes < threshold; it is 0 for the
\* empty sequence, when the last day is missing, and when the last day has
\* minutes equal to the threshold.
C7_TrailingStreak ==
    Rendered =>
        /\ panel.streak = LongestSuffix
        /\ Daily = <<>> => panel.streak = 0
        /\ (Daily # <<>> /\ Daily[Len(Daily)].missing) => panel.streak = 0
        /\ (Daily # <<>> /\ Daily[Len(Daily)].minutes = <<threshold>>)
             => panel.streak = 0

\* C7 witness: a streak of two days that a missing day ends.
C7_Witness ==
    /\ Rendered
    /\ panel.streak = 2
    /\ Len(Daily) >= 3
    /\ Daily[Len(Daily) - 2].missing

OnWeekday(k) == {i \in Present : (Daily[i].date % DaysPerWeek) + 1 = k}
SumOver(S) ==
    LET RECURSIVE Go(_)
        Go(T) == IF T = {} THEN 0
                 ELSE LET i == CHOOSE x \in T : TRUE
                      IN  Daily[i].minutes[1] + Go(T \ {i})
    IN  Go(S)

\* C8: the weekday profile has exactly the 7 rows Mon..Sun in that order for
\* every input; a row's value is the mean of the minutes of the non-missing
\* days of that weekday, and 0 when there is no such day.
C8_WeekdayProfile ==
    Rendered =>
        /\ Len(panel.heat) = 7
        /\ [i \in 1..7 |-> panel.heat[i].label]
             = <<"Mon", "Tue", "Wed", "Thu", "Fri", "Sat", "Sun">>
        /\ \A k \in 1..7 :
            LET v == panel.heat[k].avg_minutes
            IN  /\ v.den >= 1
                /\ IF OnWeekday(k) = {}
                   THEN v.num = 0
                   ELSE v.num * Cardinality(OnWeekday(k)) = SumOver(OnWeekday(k)) * v.den

\* C8 witness: two non-missing days fall on the same weekday with different
\* minutes, and some weekday has no non-missing day.
C8_Witness ==
    /\ Rendered
    /\ \E k \in 1..7 : Cardinality(OnWeekday(k)) = 2 /\ panel.heat[k].avg_minutes.den = 2
    /\ \E k \in 1..7 : OnWeekday(k) = {}

-----------------------------------------------------------------------------
(* The dashboard script, one run per user action *)

\* what st.date_input("Select range", ...) may return for a loaded frame:
\* a pair (start, end) inside [min_date, max_date], or the start alone while
\* the end is not picked yet
RangePicks(frame) ==
    IF frame = <<>> THEN {<<>>}
    ELSE LET min_date == frame[1].date
             max_date == frame[Len(frame)].date
             span == min_date..max_date
         IN  {p \in span \X span : p[1] <= p[2]} \cup {<<min_date>>}

\* the script from the range selection on, without the stop on an empty frame
Analysis_no_stop(frame, pick) ==
    IF Len(pick) = 2
    THEN [outcome |-> "metrics", start |-> pick[1], end |-> pick[2],
          panel |-> MetricsPanel(frame, pick[1], pick[2],
                                 DefaultGoal, DefaultThreshold)]
    ELSE [outcome |-> "metrics", start |-> 0, end |-> 0,
          panel |-> MetricsPanel(frame, 0, 0, DefaultGoal, DefaultThreshold)]

\* the script after the Save block: stop on an empty frame, stop on an
\* incomplete range, else the metrics panel
Analysis(frame, pick) ==
    IF frame = <<>>
    THEN [outcome |-> "no_data", start |-> start, end |-> end, panel |-> NoPanel]
    ELSE IF Len(pick) = 2
         THEN [outcome |-> "metrics", start |-> pick[1], end |-> pick[2],
               panel |-> MetricsPanel(frame, pick[1], pick[2],
                                      DefaultGoal, DefaultThreshold)]
         ELSE [outcome |-> "no_end_date", start |-> start, end |-> end,
               panel |-> NoPanel]

Show(frame, pick) ==
    /\ df' = frame
    /\ \E a \in {Analysis(frame, pick)} :
        /\ outcome' = a.outcome
        /\ start' = a.start
        /\ end' = a.end
        /\ panel' = a.panel
    /\ UNCHANGED <<goal, threshold>>

\* a run with the Save day button pressed
SaveDay(day, minutes) ==
    /\ now < MaxClock
    /\ \E r \in {upsert_day(sheet, day, minutes, "manual", now + 1)} :
        /\ sheet' = r.ws
        /\ ret' = r.ret
        /\ \E frame \in {load_data(r.ws)} :
             \E pick \in RangePicks(frame) : Show(frame, pick)
    /\ now' = now + 1
    /\ prevSheet' = sheet
    /\ prevCall' = call
    /\ call' = [day |-> day, minutes |-> minutes, source |-> "manual"]
    /\ written' = Record(day, minutes)

\* a run without the button: the page is opened or the range is changed
Rerun ==
    /\ \E frame \in {load_data(sheet)} :
         \E pick \in RangePicks(frame) : Show(frame, pick)
    /\ UNCHANGED storeVars

InitApp == InitStore

NextApp ==
    \/ \E day \in WriterDates, minutes \in WriterMinutes : SaveDay(day, minutes)
    \/ Rerun

SpecApp == InitApp /\ [][NextApp]_vars

Ran == outcome \in {"no_data", "no_end_date", "metrics"}

ZeroSummary(n) ==
    /\ panel.avg = Zero
    /\ panel.total = 0
    /\ panel.days_total = n
    /\ panel.missing_days = n
    /\ panel.above = 0
    /\ panel.below = 0
    /\ \A k \in 1..7 : panel.heat[k].avg_minutes = Zero
    /\ Len(panel.heat) = 7
    /\ panel.streak = 0

====
